---- MODULE Spec2Model ----
(***************************************************************************)
(* A model of github.com/nickname76/telegrambot: the call dispatcher       *)
(* makeAPICall (encoding choice, transport loop, soft failures), the       *)
(* per-endpoint wrappers that carry a chat identifier, the FileReader      *)
(* field-name memoization and the update poller.                           *)
(***************************************************************************)
EXTENDS Integers, Sequences, FiniteSets, TLC

VARIABLES
    \* ---- FileReader objects (the heap) ----
    fieldname,      \* FileReader.fieldname of every FileReader object ("" = unset)
    \* ---- one makeAPICall frame ----
    cpc,            \* position in makeAPICall: idle | entry | transport | sleeping | returned
    method,         \* argument method
    requestData,    \* argument requestData (the parameter object, as the wrapper passed it)
    inputFiles,     \* argument inputFiles (NilList or a sequence of InputFile)
    resultDest,     \* what resultDest points to
    reqContentType, \* local reqContentType
    reqBody,        \* local reqBody
    trace,          \* what this invocation did so far: transport calls and sleeps, in order
    ret,            \* the returned (migrateToChatID, err)
    \* ---- the transport adapter's view ----
    sent,           \* requests api.HttpDoRequest received since the running operation began
    \* ---- a per-endpoint wrapper frame (SendMessage / SendVideo) ----
    wpc,            \* position in the wrapper: idle | first | second | done
    wrapper,        \* the wrapper that is running (its Go name)
    params,         \* the caller's parameter object (*SendMessageParams / *SendVideoParams)
    initChatID,     \* params.ChatID as the caller passed it
    wMigrate,       \* the wrapper's local migrateToChatID (of its first makeAPICall)
    wret,           \* what the wrapper returned
    \* ---- the update poller (StartReceivingUpdatesWithParams) ----
    ppc,            \* idle | loop | fetching | delivering | handling | stopped
    offset,         \* params.Offset, the update cursor
    updates,        \* the callback's local updates, once sorted
    idx,            \* position of the delivery loop in updates
    handled,        \* the receiver's invocations during the current cycle, in order
    cycleOffset,    \* params.Offset when the current cycle began
    outcome,        \* how the last finished cycle ended: none | error | empty | delivered
    stopCalled,     \* the stop function has been called
    \* ---- one call of a function of the tools (callback data, commands, keyboards) ----
    tpc,            \* idle | called | compiled | returned | panicked
    tin,            \* the function called and its arguments
    tout,           \* what it computed and returned
    \* ---- makeAPICall frames of goroutines that call the same API value at once ----
    frames          \* per goroutine: its position, arguments, locals and what it returned

callVars == <<cpc, method, requestData, inputFiles, resultDest, reqContentType,
              reqBody, trace, ret>>
wrapVars == <<wpc, wrapper, params, initChatID, wMigrate, wret>>
pollVars == <<ppc, offset, updates, idx, handled, cycleOffset, outcome, stopCalled>>
toolVars == <<tpc, tin, tout>>
concVars == <<frames>>
vars == <<fieldname, callVars, sent, wrapVars, pollVars, toolVars, concVars>>

----------------------------------------------------------------------------
(* Bounds of the model *)

MaxChatID == 2        \* chat identifiers are 1..MaxChatID; 0 is "no chat id"
MaxRetryAfter == 2    \* the retry_after the provider signals, in seconds (0 = none)
MaxUpdateID == 4      \* update identifiers are 1..MaxUpdateID
MaxBatch == 3         \* one getUpdates answer holds at most this many updates
MaxCalls == 3         \* the provider stops signalling retry_after before this many calls
MaxCbLen == 2         \* a callback command or its args has at most this many characters
MaxTextLen == 6       \* a message text or caption has at most this many characters
MaxRows == 2          \* a reply keyboard has at most this many rows
MaxCols == 2          \* a keyboard row has at most this many buttons
MaxShortLen == 2      \* a text that comes with a hand-made entity has at most this many characters

----------------------------------------------------------------------------
(* Values *)

Token == "TOKEN"
DefaultAPIEndpointURL == "https://api.telegram.org/bot"

NoErr == "nil"
ChatIDs == 1..MaxChatID

\* FileReader objects a caller may hold. fr0 was built without a Reader
\* (Reader == nil); fr1 and fr2 carry a byte stream.
Readers == {"fr0", "fr1", "fr2"}
ReaderOf(fr) == IF fr = "fr0" THEN "nil" ELSE "bytes-of-" \o fr
NameOf(fr) == fr \o ".mp4"

\* What hex.EncodeToString(rand 6 bytes) may produce (never the empty string).
Names == {"0a0a0a0a0a0a", "0b0b0b0b0b0b"}

\* An InputFile interface value: nil, a FileID, a FileURL or a *FileReader.
NilFile == [kind |-> "nil", val |-> ""]
InputFiles ==
    {NilFile, [kind |-> "FileID", val |-> "AgADfileid"],
     [kind |-> "FileURL", val |-> "https://host/v.mp4"]}
    \cup {[kind |-> "FileReader", val |-> fr] : fr \in Readers}

\* A []InputFile: the nil slice (what wrappers without files pass) or a list.
NilList == [isNil |-> TRUE, items |-> <<>>]
List(items) == [isNil |-> FALSE, items |-> items]

\* msg := &Message{} and the Message values the provider may return.
ZeroMsg == "zero-Message"
Messages == {"message-A", "message-B"}

\* A nil destination: the nil *Message of the Edit wrappers, or no destination.
NilDest == "nil"
\* file := &File{}, chatInviteLink := &ChatInviteLink{}
ZeroFile == "zero-File"
ZeroLink == "zero-ChatInviteLink"
\* Results that are not objects: True, the link exportChatInviteLink returns;
\* and the array of scores of getGameHighScores.
True == "true"
InviteLink == "https://t.me/+link"
HighScores == "game-high-scores"
InlineIDs == {"inline-message-1"}

\* The arrays of updates a getUpdates answer may hold: distinct identifiers, in
\* any order (an update is modelled by its UpdateID).
UpdateIDs == 1..MaxUpdateID
Batches ==
    {b \in UNION {[1..n -> UpdateIDs] : n \in 0..MaxBatch} :
        \A i, j \in DOMAIN b : i # j => b[i] # b[j]}

\* The "result" member of an envelope: present with a value, or absent.
Result(v) == [present |-> TRUE, val |-> v]
NoResult(zero) == [present |-> FALSE, val |-> zero]

\* What the transport adapter may answer to one POST: a transport error, a body
\* that is not a response envelope, or an envelope {ok, parameters, result}.
\* The "description" member of an envelope that is not ok.
Descriptions == {"Bad Request: chat not found", "Forbidden: bot was blocked by the user"}
SoftDescription == "Too Many Requests or migrated"

NetErr(zero) == [kind |-> "neterr", ok |-> FALSE, description |-> "", hasParams |-> FALSE,
                 migrate |-> 0, retry |-> 0, result |-> NoResult(zero)]
BadJSON(zero) == [kind |-> "badjson", ok |-> FALSE, description |-> "", hasParams |-> FALSE,
                  migrate |-> 0, retry |-> 0, result |-> NoResult(zero)]
Envelopes(vals, zero) ==
    {r \in [kind : {"json"}, ok : BOOLEAN,
            description : Descriptions \cup {"", SoftDescription}, hasParams : BOOLEAN,
            migrate : 0..MaxChatID, retry : {0, MaxRetryAfter},
            result : {Result(v) : v \in vals} \cup {NoResult(zero)}] :
        /\ (~r.hasParams => r.migrate = 0 /\ r.retry = 0)
        /\ (~r.ok => ~r.result.present)
        \* a success carries no parameters, or (never consulted) both of them
        /\ (r.ok /\ r.hasParams => r.migrate = MaxChatID /\ r.retry = MaxRetryAfter)
        \* a success has no description, a soft failure one text, an error any
        /\ (r.ok => r.description = "")
        /\ (~r.ok /\ (r.migrate # 0 \/ r.retry # 0) => r.description = SoftDescription)
        /\ (~r.ok /\ r.migrate = 0 /\ r.retry = 0 => r.description \in Descriptions)}
Answers(vals, zero) == {NetErr(zero), BadJSON(zero)} \cup Envelopes(vals, zero)

----------------------------------------------------------------------------
(* FileReader: src/unnamed/part_006 *)

\* A checkFieldname without its guard: every use generates a new name.
checkFieldnameAlways(fn, fr, rnd) == [fn EXCEPT ![fr] = rnd]

\* checkFieldname: keep a name already set, else take the random draw rnd.
checkFieldname(fn, fr, rnd) ==
    IF fn[fr] # "" THEN fn ELSE [fn EXCEPT ![fr] = rnd]

\* The FileReader.fieldname map after checkFieldname ran on every *FileReader of
\* files, in order; draw[fr] is what rand.Read would give fr.
RECURSIVE checkAll(_, _, _)
checkAll(fn, files, draw) ==
    IF files = <<>> THEN fn
    ELSE LET f == Head(files)
         IN checkAll(IF f.kind = "FileReader"
                        THEN checkFieldname(fn, f.val, draw[f.val]) ELSE fn,
                     Tail(files), draw)

\* The FileReader objects among files.
ReadersIn(files) ==
    {files[i].val : i \in {j \in DOMAIN files : files[j].kind = "FileReader"}}

\* multipartFormFile of an InputFile, given the field names after its checkFieldname.
multipartFormFile(f, fn) ==
    IF f.kind = "FileReader"
    THEN [fieldname |-> fn[f.val], filename |-> NameOf(f.val), reader |-> ReaderOf(f.val)]
    ELSE [fieldname |-> "", filename |-> "", reader |-> "nil"]

\* MarshalJSON of an InputFile field: FileID and FileURL are strings, a
\* *FileReader writes the placeholder attach://<fieldname>, nil is null.
MarshalJSON(f, fn) ==
    CASE f.kind = "FileReader" -> "attach://" \o fn[f.val]
      [] f.kind = "nil" -> "null"
      [] OTHER -> f.val

\* The placeholder a request field holds for the FileReader named name.
Placeholder(name) == "attach://" \o name

----------------------------------------------------------------------------
(* makeAPICall: src/telegrambot.go *)

\* jsoniterCfg.Marshal(requestData): the tagged fields of the parameter object.
Marshal(data, fn) ==
    [chat_id |-> data.ChatID, inline_message_id |-> data.InlineMessageID,
     offset |-> data.Offset,
     files |-> [i \in 1..Len(data.Files) |->
                 IF data.Files[i].kind = "nil" /\ data.Omit[i]
                 THEN "(omitted)" ELSE MarshalJSON(data.Files[i], fn)]]

\* A filter that drops nil entries only and never asks for the reader.
filterKeepsEveryFile(files, fn) ==
    IF files.isNil THEN NilList
    ELSE List(SelectSeq(files.items, LAMBDA f : f.kind # "nil"))

\* A filter without the nil check of lines 191-193.
filterKeepsNilEntries(files, fn) ==
    IF files.isNil THEN NilList
    ELSE List(SelectSeq(files.items,
                LAMBDA f : f.kind = "nil" \/ multipartFormFile(f, fn).reader # "nil"))

filterInputFilesNeedingUpload(files, fn) ==
    IF files.isNil THEN NilList
    ELSE List(SelectSeq(files.items,
                LAMBDA f : f.kind # "nil" /\ multipartFormFile(f, fn).reader # "nil"))

reqURLCountsAttempts ==
    DefaultAPIEndpointURL \o Token \o "/" \o method
        \o (IF trace # <<>> THEN "?retry" ELSE "")

reqURL == DefaultAPIEndpointURL \o Token \o "/" \o method

\* Lines 102-145: marshal, choose the encoding, build the body.
Encode ==
    /\ cpc = "entry"
    /\ \E draw \in [1..3 -> [ReadersIn(requestData.Files)
                                \cup ReadersIn(inputFiles.items) -> Names]] :
         LET \* line 102: Marshal runs MarshalJSON of every *FileReader field
             fn1 == checkAll(fieldname, requestData.Files, draw[1])
             requestDataJSON == Marshal(requestData, fn1)
             \* line 107: the filter runs multipartFormFile of every non-nil file
             fn2 == checkAll(fn1, inputFiles.items, draw[2])
             inputFilesToUpload == filterInputFilesNeedingUpload(inputFiles, fn2)
             \* line 126: multipartFormFile of every file to upload
             fn3 == checkAll(fn2, inputFilesToUpload.items, draw[3])
         IN /\ fieldname' = fn3
            /\ IF Len(inputFilesToUpload.items) = 0
               THEN /\ reqContentType' = "application/json"
                    /\ reqBody' = [fields |-> requestDataJSON, parts |-> <<>>]
               ELSE /\ reqContentType' = "multipart/form-data"
                    /\ reqBody' =
                         [fields |-> requestDataJSON,
                          parts |-> [i \in 1..Len(inputFilesToUpload.items) |->
                                      multipartFormFile(inputFilesToUpload.items[i], fn3)]]
    /\ cpc' = "transport"
    /\ trace' = <<>>
    /\ UNCHANGED <<method, requestData, inputFiles, resultDest, ret, sent, wrapVars, pollVars, toolVars, concVars>>

\* Line 177: fmt.Errorf("makeAPICall - telegram bot api error: %w",
\*                      errors.New(apiResp.Description))
apiError(resp) == "makeAPICall - telegram bot api error: " \o resp.description

\* A dispatch whose switch has no MigrateToChatID case.
dispatchNoMigrate(resp) ==
    CASE resp.kind = "neterr" ->
            [act |-> "return", migrate |-> 0, err |-> "transport error", secs |-> 0]
      [] resp.kind = "badjson" ->
            [act |-> "return", migrate |-> 0, err |-> "decode error", secs |-> 0]
      [] OTHER ->
            IF ~resp.ok
            THEN IF resp.hasParams /\ resp.retry # 0
                 THEN [act |-> "sleep", migrate |-> 0, err |-> NoErr, secs |-> resp.retry]
                 ELSE [act |-> "return", migrate |-> 0, err |-> apiError(resp), secs |-> 0]
            ELSE [act |-> "return", migrate |-> 0, err |-> NoErr, secs |-> 0]

\* A dispatch that sleeps time.Second, whatever RetryAfter says.
dispatchSleepsOneSecond(resp) ==
    CASE resp.kind = "neterr" ->
            [act |-> "return", migrate |-> 0, err |-> "transport error", secs |-> 0]
      [] resp.kind = "badjson" ->
            [act |-> "return", migrate |-> 0, err |-> "decode error", secs |-> 0]
      [] OTHER ->
            IF ~resp.ok
            THEN IF resp.hasParams /\ resp.migrate # 0
                 THEN [act |-> "return", migrate |-> resp.migrate, err |-> NoErr, secs |-> 0]
                 ELSE IF resp.hasParams /\ resp.retry # 0
                 THEN [act |-> "sleep", migrate |-> 0, err |-> NoErr, secs |-> 1]
                 ELSE [act |-> "return", migrate |-> 0, err |-> apiError(resp), secs |-> 0]
            ELSE [act |-> "return", migrate |-> 0, err |-> NoErr, secs |-> 0]

\* A dispatch that waits a second and tries again after a provider error.
dispatchRetriesHardError(resp) ==
    CASE resp.kind = "neterr" ->
            [act |-> "return", migrate |-> 0, err |-> "transport error", secs |-> 0]
      [] resp.kind = "badjson" ->
            [act |-> "return", migrate |-> 0, err |-> "decode error", secs |-> 0]
      [] OTHER ->
            IF ~resp.ok
            THEN IF resp.hasParams /\ resp.migrate # 0
                 THEN [act |-> "return", migrate |-> resp.migrate, err |-> NoErr, secs |-> 0]
                 ELSE IF resp.hasParams /\ resp.retry # 0
                 THEN [act |-> "sleep", migrate |-> 0, err |-> NoErr, secs |-> resp.retry]
                 ELSE [act |-> "sleep", migrate |-> 0, err |-> NoErr, secs |-> 1]
            ELSE [act |-> "return", migrate |-> 0, err |-> NoErr, secs |-> 0]

\* A dispatch that does not look at the error of Unmarshal.
dispatchIgnoresDecodeError(resp) ==
    CASE resp.kind = "neterr" ->
            [act |-> "return", migrate |-> 0, err |-> "transport error", secs |-> 0]
      [] resp.kind = "badjson" ->
            [act |-> "return", migrate |-> 0, err |-> NoErr, secs |-> 0]
      [] OTHER ->
            IF ~resp.ok
            THEN IF resp.hasParams /\ resp.migrate # 0
                 THEN [act |-> "return", migrate |-> resp.migrate, err |-> NoErr, secs |-> 0]
                 ELSE IF resp.hasParams /\ resp.retry # 0
                 THEN [act |-> "sleep", migrate |-> 0, err |-> NoErr, secs |-> resp.retry]
                 ELSE [act |-> "return", migrate |-> 0, err |-> apiError(resp), secs |-> 0]
            ELSE [act |-> "return", migrate |-> 0, err |-> NoErr, secs |-> 0]

\* A dispatch whose switch tests RetryAfter before MigrateToChatID.
dispatchRetryAfterFirst(resp) ==
    CASE resp.kind = "neterr" ->
            [act |-> "return", migrate |-> 0, err |-> "transport error", secs |-> 0]
      [] resp.kind = "badjson" ->
            [act |-> "return", migrate |-> 0, err |-> "decode error", secs |-> 0]
      [] OTHER ->
            IF ~resp.ok
            THEN IF resp.hasParams /\ resp.retry # 0
                 THEN [act |-> "sleep", migrate |-> 0, err |-> NoErr, secs |-> resp.retry]
                 ELSE IF resp.hasParams /\ resp.migrate # 0
                 THEN [act |-> "return", migrate |-> resp.migrate, err |-> NoErr, secs |-> 0]
                 ELSE [act |-> "return", migrate |-> 0, err |-> apiError(resp), secs |-> 0]
            ELSE [act |-> "return", migrate |-> 0, err |-> NoErr, secs |-> 0]

\* A dispatch that gives up on the second RetryAfter of an invocation.
dispatchCapsRetries(resp) ==
    CASE resp.kind = "neterr" ->
            [act |-> "return", migrate |-> 0, err |-> "transport error", secs |-> 0]
      [] resp.kind = "badjson" ->
            [act |-> "return", migrate |-> 0, err |-> "decode error", secs |-> 0]
      [] OTHER ->
            IF ~resp.ok
            THEN IF resp.hasParams /\ resp.migrate # 0
                 THEN [act |-> "return", migrate |-> resp.migrate, err |-> NoErr, secs |-> 0]
                 ELSE IF resp.hasParams /\ resp.retry # 0 /\ trace = <<>>
                 THEN [act |-> "sleep", migrate |-> 0, err |-> NoErr, secs |-> resp.retry]
                 ELSE [act |-> "return", migrate |-> 0, err |-> apiError(resp), secs |-> 0]
            ELSE [act |-> "return", migrate |-> 0, err |-> NoErr, secs |-> 0]

\* Lines 152-179: what one loop iteration does with the transport's answer.
dispatch(resp) ==
    CASE resp.kind = "neterr" ->
            [act |-> "return", migrate |-> 0, err |-> "transport error", secs |-> 0]
      [] resp.kind = "badjson" ->
            [act |-> "return", migrate |-> 0, err |-> "decode error", secs |-> 0]
      [] OTHER ->
            IF ~resp.ok
            THEN IF resp.hasParams /\ resp.migrate # 0
                 THEN [act |-> "return", migrate |-> resp.migrate, err |-> NoErr, secs |-> 0]
                 ELSE IF resp.hasParams /\ resp.retry # 0
                 THEN [act |-> "sleep", migrate |-> 0, err |-> NoErr, secs |-> resp.retry]
                 ELSE [act |-> "return", migrate |-> 0, err |-> apiError(resp), secs |-> 0]
            ELSE [act |-> "return", migrate |-> 0, err |-> NoErr, secs |-> 0]

\* The destination is nil (what it points to is a string, or the updates).
IsNilDest(dest) == IF method = "getUpdates" THEN FALSE ELSE dest = NilDest

\* jsoniterCfg.Unmarshal into Response{Result: resultDest}: a result that is
\* present is decoded into the destination, an absent one leaves it alone; with
\* a nil destination the decoded value stays in the envelope.
Unmarshal(resp, dest) ==
    IF resp.kind = "json" /\ resp.result.present /\ ~IsNilDest(dest)
    THEN resp.result.val ELSE dest

CallEvents(tr) == SelectSeq(tr, LAMBDA e : e.ev = "call")
NumCalls(tr) == Len(CallEvents(tr))

\* The result values the provider may send for a method (an edit of an inline
\* message answers True, of any other message the Message), and the zero value
\* of the destination its wrapper passes.
ResultsOf(m) ==
    CASE m = "getUpdates" -> Batches
      [] m = "editMessageText" ->
            IF requestData.InlineMessageID # "" THEN {True} ELSE Messages
      [] m = "answerPreCheckoutQuery" -> {True}
      [] m = "exportChatInviteLink" -> {InviteLink}
      [] m = "getGameHighScores" -> {HighScores}
      [] OTHER -> Messages
ZeroOf(m) ==
    CASE m = "getUpdates" -> <<>>
      [] m = "answerPreCheckoutQuery" -> ZeroFile
      [] m = "exportChatInviteLink" -> ZeroLink
      [] OTHER -> ZeroMsg

\* Lines 156-163: Unmarshal of the body into Response{Result: resultDest}. A
\* result that is a boolean or a string does not decode into a destination that
\* points to a struct: Unmarshal returns an error, as for any malformed body.
Decoded(body, dest) ==
    IF /\ body.kind = "json"
       /\ body.result.present
       /\ method # "getUpdates"
       /\ ~IsNilDest(dest)
       /\ body.result.val \in {True, InviteLink}
    THEN BadJSON(ZeroOf(method))
    ELSE body

\* Lines 148-180: one iteration of the loop: POST, decode, soft-failure switch.
HttpDoRequest ==
    /\ cpc = "transport"
    /\ \E body \in Answers(ResultsOf(method), ZeroOf(method)) :
         LET resp == Decoded(body, resultDest)
             d == dispatch(resp)
             called == Append(trace, [ev |-> "call", resp |-> resp, secs |-> 0])
         IN /\ d.act = "sleep" => NumCalls(trace) + 1 < MaxCalls
            /\ sent' = Append(sent, [httpMethod |-> "POST", url |-> reqURL,
                                     contentType |-> reqContentType, body |-> reqBody])
            /\ resultDest' = Unmarshal(resp, resultDest)
            /\ IF d.act = "sleep"
               THEN /\ cpc' = "sleeping"
                    /\ trace' = Append(called, [ev |-> "sleep", resp |-> resp,
                                                 secs |-> d.secs])
                    /\ ret' = ret
               ELSE /\ cpc' = "returned"
                    /\ trace' = called
                    /\ ret' = [migrate |-> d.migrate, err |-> d.err]
    /\ UNCHANGED <<fieldname, method, requestData, inputFiles, reqContentType,
                   reqBody, wrapVars, pollVars, toolVars, concVars>>

\* Line 171-172: time.Sleep is over, continue loop.
Wake ==
    /\ cpc = "sleeping"
    /\ cpc' = "transport"
    /\ UNCHANGED <<fieldname, method, requestData, inputFiles, resultDest,
                   reqContentType, reqBody, trace, ret, sent, wrapVars, pollVars, toolVars, concVars>>

----------------------------------------------------------------------------
(* Per-endpoint wrappers: SendMessage and SendVideo, src/unnamed/part_001 *)

\* The Go name of a wrapper, split after its first letter.
Name(first, rest) == [first |-> first, rest |-> rest]
NoWrapper == Name("", "")

NoParams == [ChatID |-> 0, InlineMessageID |-> "", Offset |-> 0, Files |-> <<>>,
             Omit |-> <<>>]
NoBody == [fields |-> [chat_id |-> 0, inline_message_id |-> "", offset |-> 0,
                       files |-> <<>>],
           parts |-> <<>>]
NoRet == [migrate |-> 0, err |-> NoErr]

\* api.makeAPICall(m, data, files, dest) is entered.
Call(m, data, files, dest) ==
    /\ cpc' = "entry"
    /\ method' = m
    /\ requestData' = data
    /\ inputFiles' = files
    /\ resultDest' = dest
    /\ trace' = <<>>
    /\ ret' = NoRet
    /\ UNCHANGED <<reqContentType, reqBody>>

\* SendMessage(params): msg := &Message{}; makeAPICall("sendMessage", params, nil, msg)
SendMessage ==
    /\ wpc = "idle"
    /\ \E chat \in ChatIDs :
         LET p == [ChatID |-> chat, InlineMessageID |-> "", Offset |-> 0,
                   Files |-> <<>>, Omit |-> <<>>]
         IN /\ params' = p
            /\ initChatID' = chat
            /\ Call("sendMessage", p, NilList, ZeroMsg)
    /\ wpc' = "first"
    /\ wrapper' = Name("S", "endMessage")
    /\ wMigrate' = 0
    /\ wret' = [msg |-> "nil", err |-> NoErr]
    /\ sent' = <<>>
    /\ UNCHANGED <<fieldname, pollVars, toolVars, concVars>>

\* SendVideo(params): makeAPICall("sendVideo", params,
\*                                []InputFile{params.Video, params.Thumb}, msg)
SendVideo ==
    /\ wpc = "idle"
    /\ \E chat \in ChatIDs, video \in InputFiles, thumb \in InputFiles :
         LET p == [ChatID |-> chat, InlineMessageID |-> "", Offset |-> 0,
                   Files |-> <<video, thumb>>, Omit |-> <<FALSE, TRUE>>]
         IN /\ params' = p
            /\ initChatID' = chat
            /\ Call("sendVideo", p, List(<<video, thumb>>), ZeroMsg)
    /\ wpc' = "first"
    /\ wrapper' = Name("S", "endVideo")
    /\ wMigrate' = 0
    /\ wret' = [msg |-> "nil", err |-> NoErr]
    /\ sent' = <<>>
    /\ UNCHANGED <<fieldname, pollVars, toolVars, concVars>>

\* UploadStickerFile(params), src/stickers.go: file := &File{};
\* makeAPICall("answerPreCheckoutQuery", params, []InputFile{params.PNGSticker}, file)
UploadStickerFile ==
    /\ wpc = "idle"
    /\ \E png \in InputFiles :
         LET p == [ChatID |-> 0, InlineMessageID |-> "", Offset |-> 0,
                   Files |-> <<png>>, Omit |-> <<FALSE>>]
         IN /\ params' = p
            /\ Call("answerPreCheckoutQuery", p, List(<<png>>), ZeroFile)
    /\ initChatID' = 0
    /\ wpc' = "first"
    /\ wrapper' = Name("U", "ploadStickerFile")
    /\ wMigrate' = 0
    /\ wret' = [msg |-> "nil", err |-> NoErr]
    /\ sent' = <<>>
    /\ UNCHANGED <<fieldname, pollVars, toolVars, concVars>>

\* CreateChatInviteLink(params): chatInviteLink := &ChatInviteLink{};
\* makeAPICall("exportChatInviteLink", params, nil, chatInviteLink)
CreateChatInviteLink ==
    /\ wpc = "idle"
    /\ \E chat \in ChatIDs :
         LET p == [ChatID |-> chat, InlineMessageID |-> "", Offset |-> 0,
                   Files |-> <<>>, Omit |-> <<>>]
         IN /\ params' = p
            /\ initChatID' = chat
            /\ Call("exportChatInviteLink", p, NilList, ZeroLink)
    /\ wpc' = "first"
    /\ wrapper' = Name("C", "reateChatInviteLink")
    /\ wMigrate' = 0
    /\ wret' = [msg |-> "nil", err |-> NoErr]
    /\ sent' = <<>>
    /\ UNCHANGED <<fieldname, pollVars, toolVars, concVars>>

\* AnswerInlineQuery(params), src/unnamed/part_000:
\* makeAPICall("getGameHighScores", params, nil, nil)
AnswerInlineQuery ==
    /\ wpc = "idle"
    /\ LET p == [ChatID |-> 0, InlineMessageID |-> "", Offset |-> 0,
                 Files |-> <<>>, Omit |-> <<>>]
       IN /\ params' = p
          /\ Call("getGameHighScores", p, NilList, NilDest)
    /\ initChatID' = 0
    /\ wpc' = "first"
    /\ wrapper' = Name("A", "nswerInlineQuery")
    /\ wMigrate' = 0
    /\ wret' = [msg |-> "nil", err |-> NoErr]
    /\ sent' = <<>>
    /\ UNCHANGED <<fieldname, pollVars, toolVars, concVars>>

\* EditMessageText(params), src/updatingMessages.go: var msg *Message;
\* if params.InlineMessageID != "" { msg = &Message{} };
\* makeAPICall("editMessageText", params, nil, msg). The caller names the
\* message by chat (and message id) or by its inline message id.
EditMessageText ==
    /\ wpc = "idle"
    /\ \E chat \in ChatIDs \cup {0}, inline \in InlineIDs \cup {""} :
         LET p == [ChatID |-> chat, InlineMessageID |-> inline, Offset |-> 0,
                   Files |-> <<>>, Omit |-> <<>>]
             msg == IF p.InlineMessageID # "" THEN ZeroMsg ELSE NilDest
         IN /\ (chat = 0) # (inline = "")
            /\ params' = p
            /\ initChatID' = chat
            /\ Call("editMessageText", p, NilList, msg)
    /\ wpc' = "first"
    /\ wrapper' = Name("E", "ditMessageText")
    /\ wMigrate' = 0
    /\ wret' = [msg |-> "nil", err |-> NoErr]
    /\ sent' = <<>>
    /\ UNCHANGED <<fieldname, pollVars, toolVars, concVars>>

\* The wrappers that keep makeAPICall's migrateToChatID and have the branch
\* that reissues the call; the others assign it to the blank identifier.
KeepsMigrateToChatID(w) ==
    w \in {Name("S", "endMessage"), Name("S", "endVideo"),
           Name("C", "reateChatInviteLink"), Name("E", "ditMessageText")}

\* The wrapper's code after a makeAPICall returned: the migration branch and
\* the returns.
WrapperReturn ==
    /\ wpc \in {"first", "second"}
    /\ cpc = "returned"
    /\ IF wpc = "first"
       THEN /\ wMigrate' = IF KeepsMigrateToChatID(wrapper) THEN ret.migrate ELSE 0
            /\ IF ret.err # NoErr
               THEN IF wMigrate' # 0
                    THEN LET p == [params EXCEPT !.ChatID = ret.migrate]
                         IN /\ params' = p
                            /\ Call(method, p, inputFiles, resultDest)
                            /\ wpc' = "second"
                            /\ wret' = wret
                    ELSE /\ wret' = [msg |-> "nil", err |-> ret.err]
                         /\ wpc' = "done"
                         /\ cpc' = "idle"
                         /\ UNCHANGED <<params, method, requestData, inputFiles,
                                        resultDest, reqContentType, reqBody, trace, ret>>
               ELSE /\ wret' = [msg |-> resultDest, err |-> NoErr]
                    /\ wpc' = "done"
                    /\ cpc' = "idle"
                    /\ UNCHANGED <<params, method, requestData, inputFiles,
                                   resultDest, reqContentType, reqBody, trace, ret>>
       ELSE /\ wret' = IF ret.err # NoErr THEN [msg |-> "nil", err |-> ret.err]
                                          ELSE [msg |-> resultDest, err |-> NoErr]
            /\ wpc' = "done"
            /\ cpc' = "idle"
            /\ UNCHANGED <<wMigrate, params, method, requestData, inputFiles,
                           resultDest, reqContentType, reqBody, trace, ret>>
    /\ UNCHANGED <<fieldname, sent, wrapper, initChatID, pollVars, toolVars, concVars>>

\* The caller has looked at what the wrapper returned and goes on; the
\* FileReader objects it holds keep their field names.
CallerContinues ==
    /\ wpc = "done"
    /\ wpc' = "idle"
    /\ cpc' = "idle"
    /\ method' = ""
    /\ requestData' = NoParams
    /\ inputFiles' = NilList
    /\ resultDest' = ZeroMsg
    /\ reqContentType' = ""
    /\ reqBody' = NoBody
    /\ trace' = <<>>
    /\ ret' = NoRet
    /\ sent' = <<>>
    /\ wrapper' = NoWrapper
    /\ params' = NoParams
    /\ initChatID' = 0
    /\ wMigrate' = 0
    /\ wret' = [msg |-> "nil", err |-> NoErr]
    /\ UNCHANGED <<fieldname, pollVars, toolVars, concVars>>

----------------------------------------------------------------------------
(* Goroutines that run makeAPICall on one API value at the same time *)

\* The goroutines, and the InputFile each may pass: its own FileReader object
\* (fr0 has no Reader) or a FileID. No FileReader is handed to two goroutines.
Goroutines == {1, 2}
OwnFiles(g) ==
    IF g = 1
    THEN {[kind |-> "FileReader", val |-> "fr1"], [kind |-> "FileID", val |-> "AgADfileid"]}
    ELSE {[kind |-> "FileReader", val |-> "fr2"], [kind |-> "FileReader", val |-> "fr0"]}

\* A FileReader whose field name lives in one package-level variable.
CellShared(fr) == "fr1"

\* Where the field name of a FileReader is stored: in the field fieldname of
\* the object itself.
Cell(fr) == fr

\* What the goroutines read when they read fr.fieldname.
Heap == [fr \in Readers |-> fieldname[Cell(fr)]]

\* The frame of a goroutine that is not inside makeAPICall.
IdleFrame ==
    [pc |-> "idle", stage |-> "", method |-> "", file |-> NilFile, reqURL |-> "",
     fields |-> "", reqContentType |-> "", parts |-> <<>>, answers |-> <<>>, ret |-> NoRet]

\* Lines 89-100 of makeAPICall("sendVideo", params, []InputFile{params.Video}, msg):
\* reqURL is built from the API value, which is only read.
GoMakeAPICall ==
    /\ \E g \in Goroutines : \E file \in OwnFiles(g) :
         /\ frames[g].pc = "idle"
         /\ frames' = [frames EXCEPT ![g] =
                         [IdleFrame EXCEPT !.pc = "check", !.stage = "marshal",
                                           !.method = "sendVideo", !.file = file,
                                           !.reqURL = DefaultAPIEndpointURL \o Token
                                                         \o "/" \o "sendVideo"]]
    /\ UNCHANGED <<fieldname, callVars, sent, wrapVars, pollVars, toolVars>>

\* Lines 102-109 for a file that is no *FileReader: MarshalJSON writes the
\* string, multipartFormFile has no reader, the request is JSON.
GoEncodePlainFile ==
    /\ \E g \in Goroutines :
         /\ frames[g].pc = "check"
         /\ frames[g].file.kind # "FileReader"
         /\ frames' = [frames EXCEPT ![g].fields = MarshalJSON(frames[g].file, Heap),
                                     ![g].reqContentType = "application/json",
                                     ![g].stage = "",
                                     ![g].pc = "transport"]
    /\ UNCHANGED <<fieldname, callVars, sent, wrapVars, pollVars, toolVars>>

\* checkFieldname, the test `if fr.fieldname != ""`, in MarshalJSON (stage
\* marshal, line 102) or multipartFormFile (stages filter, line 196, and parts,
\* line 126).
GoCheckFieldname ==
    /\ \E g \in Goroutines :
         /\ frames[g].pc = "check"
         /\ frames[g].file.kind = "FileReader"
         /\ frames' = [frames EXCEPT ![g].pc =
                         IF Heap[frames[g].file.val] # "" THEN "read" ELSE "generate"]
    /\ UNCHANGED <<fieldname, callVars, sent, wrapVars, pollVars, toolVars>>

\* checkFieldname: rand.Read(b); fr.fieldname = hex.EncodeToString(b).
GoGenerateFieldname ==
    /\ \E g \in Goroutines, rnd \in Names :
         /\ frames[g].pc = "generate"
         /\ fieldname' = [fieldname EXCEPT ![Cell(frames[g].file.val)] = rnd]
         /\ frames' = [frames EXCEPT ![g].pc = "read"]
    /\ UNCHANGED <<callVars, sent, wrapVars, pollVars, toolVars>>

\* MarshalJSON and multipartFormFile read fr.fieldname after checkFieldname:
\* the placeholder is written (marshal), the file is kept or dropped by
\* filterInputFilesNeedingUpload (filter), the form-file part is created and
\* the content type set (parts).
GoReadFieldname ==
    /\ \E g \in Goroutines :
         LET f == frames[g]
             part == multipartFormFile(f.file, Heap)
         IN /\ f.pc = "read"
            /\ frames' = [frames EXCEPT ![g] =
                 CASE f.stage = "marshal" ->
                        [f EXCEPT !.fields = MarshalJSON(f.file, Heap),
                                  !.stage = "filter", !.pc = "check"]
                   [] f.stage = "filter" ->
                        IF part.reader # "nil"
                        THEN [f EXCEPT !.stage = "parts", !.pc = "check"]
                        ELSE [f EXCEPT !.reqContentType = "application/json",
                                       !.stage = "", !.pc = "transport"]
                   [] OTHER ->
                        [f EXCEPT !.parts = <<part>>,
                                  !.reqContentType = "multipart/form-data",
                                  !.stage = "", !.pc = "transport"]]
    /\ UNCHANGED <<fieldname, callVars, sent, wrapVars, pollVars, toolVars>>

\* Lines 148-180 in a goroutine: POST of the frame's own request, decode, switch.
GoHttpDoRequest ==
    /\ \E g \in Goroutines, resp \in Answers({"message-A"}, ZeroMsg) :
         LET f == frames[g]
             d == dispatch(resp)
         IN /\ f.pc = "transport"
            /\ d.act = "sleep" => Len(f.answers) + 1 < MaxCalls
            /\ frames' = [frames EXCEPT ![g] =
                 IF d.act = "sleep"
                 THEN [f EXCEPT !.answers = Append(f.answers, resp), !.pc = "sleeping"]
                 ELSE [f EXCEPT !.answers = Append(f.answers, resp), !.pc = "returned",
                                !.ret = [migrate |-> d.migrate, err |-> d.err]]]
    /\ UNCHANGED <<fieldname, callVars, sent, wrapVars, pollVars, toolVars>>

\* Lines 171-172 in a goroutine: time.Sleep is over.
GoWake ==
    /\ \E g \in Goroutines :
         /\ frames[g].pc = "sleeping"
         /\ frames' = [frames EXCEPT ![g].pc = "transport"]
    /\ UNCHANGED <<fieldname, callVars, sent, wrapVars, pollVars, toolVars>>

\* The goroutine's caller goes on; it may call again with the same FileReader.
GoCallerContinues ==
    /\ \E g \in Goroutines :
         /\ frames[g].pc = "returned"
         /\ frames' = [frames EXCEPT ![g] = IdleFrame]
    /\ UNCHANGED <<fieldname, callVars, sent, wrapVars, pollVars, toolVars>>

----------------------------------------------------------------------------
(* The specification of the wrappers and the dispatcher *)

\* No call is under way; dest is what the destination slot of the idle
\* makeAPICall frame holds.
InitWith(dest) ==
    /\ fieldname = [fr \in Readers |-> ""]
    /\ cpc = "idle"
    /\ method = ""
    /\ requestData = NoParams
    /\ inputFiles = NilList
    /\ resultDest = dest
    /\ reqContentType = ""
    /\ reqBody = NoBody
    /\ trace = <<>>
    /\ ret = NoRet
    /\ sent = <<>>
    /\ wpc = "idle"
    /\ wrapper = NoWrapper
    /\ params = NoParams
    /\ initChatID = 0
    /\ wMigrate = 0
    /\ wret = [msg |-> "nil", err |-> NoErr]
    /\ ppc = "idle"
    /\ offset = 0
    /\ updates = <<>>
    /\ idx = 1
    /\ handled = <<>>
    /\ cycleOffset = 0
    /\ outcome = "none"
    /\ stopCalled = FALSE
    /\ frames = [g \in Goroutines |-> IdleFrame]

\* msg := &Message{} is what a wrapper will pass.
InitFrames == InitWith(ZeroMsg)

\* No function of the tools has been called.
NoInput == [tool |-> "none"]
NoOutput == [tool |-> "none"]
ToolsIdle ==
    /\ tpc = "idle"
    /\ tin = NoInput
    /\ tout = NoOutput

Init == InitFrames /\ ToolsIdle

Next ==
    \/ SendMessage
    \/ SendVideo
    \/ UploadStickerFile
    \/ CreateChatInviteLink
    \/ AnswerInlineQuery
    \/ EditMessageText
    \/ Encode
    \/ HttpDoRequest
    \/ Wake
    \/ WrapperReturn
    \/ CallerContinues

Spec == Init /\ [][Next]_vars

\* Two goroutines inside makeAPICall, their steps interleaved in any order.
NextConc ==
    \/ GoMakeAPICall
    \/ GoEncodePlainFile
    \/ GoCheckFieldname
    \/ GoGenerateFieldname
    \/ GoReadFieldname
    \/ GoHttpDoRequest
    \/ GoWake
    \/ GoCallerContinues

SpecConc == Init /\ [][NextConc]_vars

\* The dispatch loop on its own, entered by the wrappers that upload nothing.
NextCall ==
    \/ SendMessage
    \/ CreateChatInviteLink
    \/ EditMessageText
    \/ Encode
    \/ HttpDoRequest
    \/ Wake
    \/ WrapperReturn
    \/ CallerContinues

\* The goroutine inside makeAPICall keeps running: marshalling ends, the
\* transport function returns and time.Sleep ends. The provider stops
\* answering RetryAfter at the latest with the MaxCalls-th request.
FairSpecCall ==
    /\ Init
    /\ [][NextCall]_vars
    /\ WF_vars(Encode)
    /\ WF_vars(HttpDoRequest)
    /\ WF_vars(Wake)

----------------------------------------------------------------------------
(* The update poller: src/telegrambotTools.go *)

\* sort.Sort on updatesSortInterface (Less compares UpdateID): for slices this
\* short the library sorts by insertion.
RECURSIVE insertSorted(_, _)
insertSorted(u, sorted) ==
    IF sorted = <<>> THEN <<u>>
    ELSE IF u < Head(sorted) THEN <<u>> \o sorted
    ELSE <<Head(sorted)>> \o insertSorted(u, Tail(sorted))

RECURSIVE insertionSort(_)
insertionSort(us) ==
    IF us = <<>> THEN <<>>
    ELSE insertSorted(us[Len(us)], insertionSort(SubSeq(us, 1, Len(us) - 1)))

\* A SortUpdates that returns the slice as it came.
SortUpdatesLeavesOrder(us) == us

SortUpdates(us) == insertionSort(us)

NilUpdate == 0

\* StartReceivingUpdatesWithParams(api, params, receiver): the repeater is
\* started with the callback; params is the callback's own copy.
StartReceivingUpdatesWithParams ==
    /\ ppc = "idle"
    /\ ppc' = "loop"
    /\ \E off \in 0..MaxUpdateID : offset' = off
    /\ UNCHANGED <<fieldname, callVars, sent, wrapVars, toolVars, concVars, updates, idx, handled,
                   cycleOffset, outcome, stopCalled>>

\* The repeater calls the callback: line 42, api.GetUpdates(&params), which is
\* makeAPICall("getUpdates", params, nil, &updates) with updates := []*Update{}.
RepeaterCall ==
    /\ ppc = "loop"
    /\ ~stopCalled
    /\ ppc' = "fetching"
    /\ Call("getUpdates", [ChatID |-> 0, InlineMessageID |-> "", Offset |-> offset,
                           Files |-> <<>>, Omit |-> <<>>],
            NilList, <<>>)
    /\ sent' = <<>>
    /\ handled' = <<>>
    /\ cycleOffset' = offset
    /\ UNCHANGED <<fieldname, wrapVars, toolVars, concVars, offset, updates, idx, outcome, stopCalled>>

\* Lines 42-52 once GetUpdates returned: the error is handed to the receiver,
\* an empty batch ends the cycle, any other batch is sorted. After an error
\* the callback returns with params.Offset = errOffset, the poller at errPc.
AfterGetUpdates(errOffset, errPc) ==
    /\ ppc = "fetching"
    /\ cpc = "returned"
    /\ cpc' = "idle"
    /\ IF ret.err # NoErr
       THEN /\ handled' = Append(handled, [update |-> NilUpdate, err |-> ret.err])
            /\ ppc' = errPc
            /\ offset' = errOffset
            /\ outcome' = "error"
            /\ UNCHANGED <<updates, idx>>
       ELSE IF Len(resultDest) = 0
       THEN /\ ppc' = "loop"
            /\ outcome' = "empty"
            /\ UNCHANGED <<updates, idx, handled, offset>>
       ELSE /\ updates' = SortUpdates(resultDest)
            /\ idx' = 1
            /\ ppc' = "delivering"
            /\ UNCHANGED <<handled, outcome, offset>>
    /\ UNCHANGED <<fieldname, method, requestData, inputFiles, resultDest,
                   reqContentType, reqBody, trace, ret, sent, wrapVars, toolVars, concVars,
                   cycleOffset, stopCalled>>

\* A callback that steps over the update it could not fetch.
GetUpdatesReturnSkipsOne == AfterGetUpdates(offset + 1, "loop")

\* A callback whose error ends the polling.
GetUpdatesReturnGivesUp == AfterGetUpdates(offset, "stopped")

GetUpdatesReturn == AfterGetUpdates(offset, "loop")

\* A loop that starts the receiver with `go receiver(update, nil)`: the next
\* update is handed over while earlier invocations may still run.
DeliverInGoroutine ==
    /\ ppc \in {"delivering", "handling"}
    /\ Len(handled) < Len(updates)
    /\ handled' = Append(handled, [update |-> updates[Len(handled) + 1], err |-> NoErr])
    /\ ppc' = "handling"
    /\ UNCHANGED <<fieldname, callVars, sent, wrapVars, toolVars, concVars, offset, updates, idx,
                   cycleOffset, outcome, stopCalled>>

\* Lines 54-55: receiver(update, nil) is called for the next update of the
\* batch; idx - 1 invocations have returned.
Deliver ==
    /\ ppc = "delivering"
    /\ idx <= Len(updates)
    /\ handled' = Append(handled, [update |-> updates[idx], err |-> NoErr])
    /\ ppc' = "handling"
    /\ UNCHANGED <<fieldname, callVars, sent, wrapVars, toolVars, concVars, offset, updates, idx,
                   cycleOffset, outcome, stopCalled>>

\* Lines 55-56: the receiver returns and the loop goes to the next update.
ReceiverReturns ==
    /\ ppc = "handling"
    /\ idx' = idx + 1
    /\ ppc' = "delivering"
    /\ UNCHANGED <<fieldname, callVars, sent, wrapVars, toolVars, concVars, offset, updates, handled,
                   cycleOffset, outcome, stopCalled>>

\* A callback that sets params.Offset before its delivery loop is through.
AdvanceOffsetEarly ==
    /\ ppc = "delivering"
    /\ offset' = updates[Len(updates)] + 1
    /\ ppc' = "loop"
    /\ outcome' = "delivered"
    /\ UNCHANGED <<fieldname, callVars, sent, wrapVars, toolVars, concVars, updates, idx, handled,
                   cycleOffset, stopCalled>>

\* Line 58: params.Offset = updates[len(updates)-1].UpdateID + 1, and the
\* callback returns.
AdvanceOffset ==
    /\ ppc = "delivering"
    /\ idx > Len(updates)
    /\ offset' = updates[Len(updates)] + 1
    /\ ppc' = "loop"
    /\ outcome' = "delivered"
    /\ UNCHANGED <<fieldname, callVars, sent, wrapVars, toolVars, concVars, updates, idx, handled,
                   cycleOffset, stopCalled>>

\* The caller calls the stop function StartRepeater returned.
Stop ==
    /\ ppc # "idle"
    /\ ~stopCalled
    /\ stopCalled' = TRUE
    /\ UNCHANGED <<fieldname, callVars, sent, wrapVars, toolVars, concVars, ppc, offset, updates, idx,
                   handled, cycleOffset, outcome>>

\* The repeater, between two calls of the callback, finds itself stopped.
RepeaterExit ==
    /\ ppc = "loop"
    /\ stopCalled
    /\ ppc' = "stopped"
    /\ UNCHANGED <<fieldname, callVars, sent, wrapVars, toolVars, concVars, offset, updates, idx,
                   handled, cycleOffset, outcome, stopCalled>>

NextPoll ==
    \/ StartReceivingUpdatesWithParams
    \/ RepeaterCall
    \/ Encode
    \/ HttpDoRequest
    \/ Wake
    \/ GetUpdatesReturn
    \/ Deliver
    \/ ReceiverReturns
    \/ AdvanceOffset
    \/ Stop
    \/ RepeaterExit

\* The only destination of a program that polls is updates := []*Update{}.
InitPoll == InitWith(<<>>) /\ ToolsIdle

SpecPoll == InitPoll /\ [][NextPoll]_vars

\* The poller's goroutine keeps running, the transport answers every request
\* and the receiver returns; nothing obliges the caller to call stop.
FairSpecPoll ==
    /\ SpecPoll
    /\ WF_vars(RepeaterCall)
    /\ WF_vars(Encode)
    /\ WF_vars(HttpDoRequest)
    /\ WF_vars(Wake)
    /\ WF_vars(GetUpdatesReturn)
    /\ WF_vars(Deliver)
    /\ WF_vars(ReceiverReturns)
    /\ WF_vars(AdvanceOffset)
    /\ WF_vars(RepeaterExit)

----------------------------------------------------------------------------
(* The tools: callback data, commands, reply keyboards.                    *)
(* src/telegrambotTools.go, src/tools/commands.go, src/tools/replyKeyboards.go *)

\* A Go string is the sequence of its characters.
NUL == "\\x00"
Strings(chars, n) == UNION {[1..k -> chars] : k \in 0..n}

\* strings.Index(s, c): the index (from 0) of the first c in s, or -1.
Index(s, c) ==
    IF \E i \in DOMAIN s : s[i] = c
    THEN (CHOOSE i \in DOMAIN s : s[i] = c /\ \A j \in 1..(i - 1) : s[j] # c) - 1
    ELSE -1

\* s[lo:hi] and s[lo:]
Slice(s, lo, hi) == SubSeq(s, lo + 1, hi)
SliceFrom(s, lo) == SubSeq(s, lo + 1, Len(s))

\* CompileCbQryData(command, args)
CompileCbQryData(command, args) ==
    IF args = <<>> THEN command ELSE command \o <<NUL>> \o args

\* strings.SplitN(s, sep, 2)
SplitN2(s, sep) ==
    LET i == Index(s, sep)
    IN IF i = -1 THEN <<s>> ELSE <<Slice(s, 0, i), SliceFrom(s, i + 1)>>

\* A DecompileCbQryData that splits at the last separator instead of the first.
DecompileCbQryDataAtLast(cbQryData) ==
    LET seps == {i \in DOMAIN cbQryData : cbQryData[i] = NUL}
        last == CHOOSE i \in seps : \A j \in seps : j <= i
    IN IF seps = {} THEN [command |-> cbQryData, args |-> <<>>]
       ELSE [command |-> SubSeq(cbQryData, 1, last - 1),
             args |-> SubSeq(cbQryData, last + 1, Len(cbQryData))]

\* DecompileCbQryData(cbQryData)
DecompileCbQryData(cbQryData) ==
    LET data == SplitN2(cbQryData, NUL)
    IN [command |-> data[1], args |-> IF Len(data) = 2 THEN data[2] ELSE <<>>]

\* strings.TrimSpace
RECURSIVE TrimLeft(_)
TrimLeft(s) == IF s # <<>> /\ Head(s) = " " THEN TrimLeft(Tail(s)) ELSE s
RECURSIVE TrimRight(_)
TrimRight(s) ==
    IF s # <<>> /\ s[Len(s)] = " " THEN TrimRight(SubSeq(s, 1, Len(s) - 1)) ELSE s
TrimSpace(s) == TrimRight(TrimLeft(s))

MessageEntityTypeBotCommand == "bot_command"
MessageEntityTypeBold == "bold"

\* The loop of ParseMessageCommand over the entities of text; with atStart the
\* entity must begin the text (entity.Offset != 0 is skipped).
parseCommand(text, textEntities, atStart) ==
    LET found == {i \in DOMAIN textEntities :
                    /\ textEntities[i].Type = MessageEntityTypeBotCommand
                    /\ (atStart => textEntities[i].Offset = 0)}
    IN IF found = {} THEN [command |-> <<>>, args |-> <<>>]
       ELSE LET entity == textEntities[CHOOSE i \in found : \A j \in found : i <= j]
                command == Slice(text, 1, entity.Length)
                usernameIndex == Index(command, "@")
            IN [command |-> IF usernameIndex # -1 THEN Slice(command, 0, usernameIndex)
                                                   ELSE command,
                args |-> TrimSpace(SliceFrom(text, entity.Length))]

\* Go's s[lo:hi] panics unless 0 <= lo <= hi <= len(s).
SliceInRange(s, lo, hi) == 0 <= lo /\ lo <= hi /\ hi <= Len(s)

\* The loop of ParseMessageCommand panics: text[1:entity.Length] or
\* text[entity.Length:] of the entity it stops at is out of range.
parseCommandPanics(text, textEntities) ==
    LET found == {i \in DOMAIN textEntities :
                    /\ textEntities[i].Type = MessageEntityTypeBotCommand
                    /\ textEntities[i].Offset = 0}
    IN /\ found # {}
       /\ LET entity == textEntities[CHOOSE i \in found : \A j \in found : i <= j]
          IN \/ ~SliceInRange(text, 1, entity.Length)
             \/ ~SliceInRange(text, entity.Length, Len(text))

ParseMessageCommandPanics(msg) ==
    CASE msg.Text # <<>> -> parseCommandPanics(msg.Text, msg.Entities)
      [] msg.Caption # <<>> -> parseCommandPanics(msg.Caption, msg.CaptionEntities)
      [] OTHER -> FALSE

parseMessage(msg, atStart) ==
    CASE msg.Text # <<>> -> parseCommand(msg.Text, msg.Entities, atStart)
      [] msg.Caption # <<>> -> parseCommand(msg.Caption, msg.CaptionEntities, atStart)
      [] OTHER -> [command |-> <<>>, args |-> <<>>]

\* A ParseMessageCommand that takes the first command wherever it stands.
ParseMessageCommandAnywhere(msg) == parseMessage(msg, FALSE)

\* ParseMessageCommand(msg)
ParseMessageCommand(msg) == parseMessage(msg, TRUE)

\* ---- reply keyboards ----
NilError == [nil |-> TRUE, of |-> <<0, 0>>]
NilMessage == [nil |-> TRUE, Text |-> <<>>]

\* button.Handler(): the handlers are told apart by the button they belong to.
Handler(button) ==
    [ran |-> <<button.Handler.of>>,
     err |-> IF button.Handler.fails THEN [nil |-> FALSE, of |-> button.Handler.of]
                                     ELSE NilError]

\* The two loops of HandleMessageKeyboardButton from button c of row r on; with
\* first, the first button found returns, else the search goes on and the last
\* button found decides.
RECURSIVE scanButtons(_, _, _, _, _, _)
scanButtons(rkh, r, c, text, first, sofar) ==
    IF r > Len(rkh) THEN sofar
    ELSE IF c > Len(rkh[r]) THEN scanButtons(rkh, r + 1, 1, text, first, sofar)
    ELSE IF rkh[r][c].Text = text
    THEN LET h == Handler(rkh[r][c])
             res == [handled |-> TRUE, err |-> h.err, ran |-> sofar.ran \o h.ran]
         IN IF first THEN res ELSE scanButtons(rkh, r, c + 1, text, first, res)
    ELSE scanButtons(rkh, r, c + 1, text, first, sofar)

handleButton(rkh, msg, first) ==
    IF msg.nil \/ msg.Text = <<>>
    THEN [handled |-> FALSE, err |-> NilError, ran |-> <<>>]
    ELSE scanButtons(rkh, 1, 1, msg.Text, first,
                     [handled |-> FALSE, err |-> NilError, ran |-> <<>>])

\* A HandleMessageKeyboardButton that does not return at the first button found.
HandleMessageKeyboardButtonEvery(rkh, msg) == handleButton(rkh, msg, FALSE)

\* ReplyKeyboardHandler.HandleMessageKeyboardButton(msg)
HandleMessageKeyboardButton(rkh, msg) == handleButton(rkh, msg, TRUE)

\* ---- the arguments the functions are called with ----
CbChars == {"a", "b", NUL}
CbStrings == Strings(CbChars, MaxCbLen)

TextChars == {"/", "c", "@", " "}
Texts == Strings(TextChars, MaxTextLen)

\* The entities the provider reports for a text: a bot_command entity for every
\* "/" that begins the text or follows a space and is followed by a name, with
\* the "@" and name after it, if any; Offset and Length count characters.
RECURSIVE NameLen(_, _)
NameLen(text, i) ==
    IF i <= Len(text) /\ text[i] = "c" THEN 1 + NameLen(text, i + 1) ELSE 0
CommandLen(text, i) ==
    LET n == NameLen(text, i + 1)
        u == IF i + n + 1 <= Len(text) /\ text[i + n + 1] = "@"
             THEN NameLen(text, i + n + 2) ELSE 0
    IN IF u > 0 THEN 1 + n + 1 + u ELSE 1 + n
RECURSIVE CommandEntities(_, _)
CommandEntities(text, i) ==
    IF i > Len(text) THEN <<>>
    ELSE IF /\ text[i] = "/"
            /\ (i = 1 \/ text[i - 1] = " ")
            /\ NameLen(text, i + 1) > 0
    THEN <<[Type |-> MessageEntityTypeBotCommand, Offset |-> i - 1,
            Length |-> CommandLen(text, i)]>>
         \o CommandEntities(text, i + CommandLen(text, i))
    ELSE CommandEntities(text, i + 1)
\* ... and, when the text begins in bold, a bold entity before them.
EntitiesOf(text, bold) ==
    (IF bold /\ text # <<>>
     THEN <<[Type |-> MessageEntityTypeBold, Offset |-> 0, Length |-> 1]>> ELSE <<>>)
    \o CommandEntities(text, 1)

\* A Message with a text, or with a caption (a message has not both).
Messages4Parse ==
    {[Text |-> IF where = "text" THEN t ELSE <<>>,
      Entities |-> IF where = "text" THEN EntitiesOf(t, bold) ELSE <<>>,
      Caption |-> IF where = "caption" THEN t ELSE <<>>,
      CaptionEntities |-> IF where = "caption" THEN EntitiesOf(t, bold) ELSE <<>>] :
        t \in Texts, bold \in BOOLEAN, where \in {"text", "caption"}}

\* A Message built by hand, or decoded from a webhook body: a short text with
\* one bot_command entity at offset 0 of any Length, fitting the text or not.
MessagesOfAnyEntity ==
    {[Text |-> t,
      Entities |-> <<[Type |-> MessageEntityTypeBotCommand, Offset |-> 0, Length |-> n]>>,
      Caption |-> <<>>, CaptionEntities |-> <<>>] :
        t \in Strings(TextChars, MaxShortLen) \ {<<>>}, n \in 0..(MaxShortLen + 1)}

\* Keyboards: rows of buttons; a button has a Text and its own Handler, and the
\* handlers of a keyboard fail or not.
ButtonTexts == {<<"A">>, <<"B">>}
KeyboardTexts ==
    UNION {[1..n -> UNION {[1..k -> ButtonTexts] : k \in 0..MaxCols}] : n \in 0..MaxRows}
Keyboard(texts, fails) ==
    [r \in DOMAIN texts |->
        [c \in DOMAIN texts[r] |->
            [Text |-> texts[r][c], Handler |-> [of |-> <<r, c>>, fails |-> fails]]]]
Keyboards == {Keyboard(texts, fails) : texts \in KeyboardTexts, fails \in BOOLEAN}
KeyboardMessages ==
    {NilMessage} \cup {[nil |-> FALSE, Text |-> t] : t \in ButtonTexts \cup {<<>>, <<"C">>}}

ToolInputs ==
    {[tool |-> "CbQryData", command |-> c, args |-> a] : c \in CbStrings, a \in CbStrings}
    \cup {[tool |-> "ParseMessageCommand", msg |-> m] : m \in Messages4Parse}
    \cup {[tool |-> "ParseMessageCommand of any entity", msg |-> m] :
            m \in MessagesOfAnyEntity}
    \cup {[tool |-> "HandleMessageKeyboardButton", rkh |-> k, msg |-> m] :
            k \in Keyboards, m \in KeyboardMessages}

\* ---- the calls ----
CompileCall ==
    /\ tpc = "called"
    /\ tin.tool = "CbQryData"
    /\ tout' = [tool |-> "CbQryData",
                cbQryData |-> CompileCbQryData(tin.command, tin.args)]
    /\ tpc' = "compiled"
    /\ UNCHANGED <<fieldname, callVars, sent, wrapVars, pollVars, concVars, tin>>

DecompileCall ==
    /\ tpc = "compiled"
    /\ tout' = [tool |-> "CbQryData", cbQryData |-> tout.cbQryData,
                result |-> DecompileCbQryData(tout.cbQryData)]
    /\ tpc' = "returned"
    /\ UNCHANGED <<fieldname, callVars, sent, wrapVars, pollVars, concVars, tin>>

ParseCall ==
    /\ tpc = "called"
    /\ tin.tool \in {"ParseMessageCommand", "ParseMessageCommand of any entity"}
    /\ IF ParseMessageCommandPanics(tin.msg)
       THEN \* runtime error: slice bounds out of range
            /\ tout' = tout
            /\ tpc' = "panicked"
       ELSE /\ tout' = [tool |-> "ParseMessageCommand",
                        result |-> ParseMessageCommand(tin.msg)]
            /\ tpc' = "returned"
    /\ UNCHANGED <<fieldname, callVars, sent, wrapVars, pollVars, concVars, tin>>

HandleCall ==
    /\ tpc = "called"
    /\ tin.tool = "HandleMessageKeyboardButton"
    /\ tout' = [tool |-> "HandleMessageKeyboardButton",
                result |-> HandleMessageKeyboardButton(tin.rkh, tin.msg)]
    /\ tpc' = "returned"
    /\ UNCHANGED <<fieldname, callVars, sent, wrapVars, pollVars, concVars, tin>>

InitTools ==
    /\ InitFrames
    /\ tpc = "called"
    /\ tin \in ToolInputs
    /\ tout = NoOutput

NextTools ==
    \/ CompileCall
    \/ DecompileCall
    \/ ParseCall
    \/ HandleCall

SpecTools == InitTools /\ [][NextTools]_vars

----------------------------------------------------------------------------
(* Properties of the dispatcher and the wrappers, checked under Spec and FairSpecCall *)

IsMigration(r) == r.kind = "json" /\ ~r.ok /\ r.hasParams /\ r.migrate # 0
IsRateLimit(r) ==
    r.kind = "json" /\ ~r.ok /\ r.hasParams /\ r.migrate = 0 /\ r.retry # 0
IsSuccess(r) == r.kind = "json" /\ r.ok
LastAnswer == trace[Len(trace)].resp

\* C1: when the first answer of a makeAPICall has ok=false and a non-zero
\* migrate_to_chat_id M, the call has returned (M, nil) after exactly one
\* transport call, without sleeping and without retrying.
C1_MigrationReturnsWithoutRetry ==
    (trace # <<>> /\ IsMigration(trace[1].resp)) =>
        /\ cpc \in {"returned", "idle"}
        /\ ret = [migrate |-> trace[1].resp.migrate, err |-> NoErr]
        /\ trace = <<[ev |-> "call", resp |-> trace[1].resp, secs |-> 0]>>

C1_Witness ==
    /\ cpc = "returned"
    /\ trace # <<>>
    /\ IsMigration(trace[1].resp)
    /\ ret.migrate = MaxChatID

\* C2: when the first answer is ok=false with retry_after = N # 0 and no migrate
\* id, and the second answer is ok=true, the call made exactly two transport
\* calls with one sleep of N seconds between them, and returned (0, nil) with
\* the second answer's result decoded into the destination.
C2_RateLimitRetry ==
    LET calls == CallEvents(trace)
    IN (Len(calls) >= 2 /\ IsRateLimit(calls[1].resp) /\ IsSuccess(calls[2].resp)) =>
         /\ trace = <<calls[1],
                      [ev |-> "sleep", resp |-> calls[1].resp,
                       secs |-> calls[1].resp.retry],
                      calls[2]>>
         /\ cpc \in {"returned", "idle"}
         /\ ret = [migrate |-> 0, err |-> NoErr]
         /\ ~IsNilDest(resultDest) =>
                resultDest = IF calls[2].resp.result.present
                             THEN calls[2].resp.result.val ELSE ZeroOf(method)

C2_Witness ==
    /\ cpc = "returned"
    /\ Len(trace) = 3
    /\ IsRateLimit(trace[1].resp)
    /\ trace[2].secs = MaxRetryAfter
    /\ IsSuccess(trace[3].resp)
    /\ resultDest = "message-B"

\* C3: a wrapper whose first makeAPICall came back with a non-zero
\* migrateToChatID M has, when it returns, set its params' chat id to M and
\* reissued the method: the transport saw a second request carrying chat id M.
C3_WrapperReissuesOnMigration ==
    (wpc = "done" /\ wMigrate # 0) =>
        /\ params.ChatID = wMigrate
        /\ Len(sent) = 2
        /\ sent[2].url = sent[1].url
        /\ sent[2].body.fields.chat_id = wMigrate

ContentTypeFor(multipart) ==
    IF multipart THEN "multipart/form-data" ELSE "application/json"
Encoded == cpc \in {"transport", "sleeping", "returned"}
HasFileReader(files) ==
    \E i \in DOMAIN files.items : files.items[i].kind = "FileReader"
HasByteStream(files) ==
    \E i \in DOMAIN files.items :
        /\ files.items[i].kind = "FileReader"
        /\ ReaderOf(files.items[i].val) # "nil"

PartOwner(part) == CHOOSE fr \in Readers : ReaderOf(fr) = part.reader

AttachNamesMatch(data, body) ==
    \A i \in DOMAIN body.parts : \A j \in DOMAIN data.Files :
        (data.Files[j].kind = "FileReader" /\ data.Files[j].val = PartOwner(body.parts[i]))
            => body.fields.files[j] = Placeholder(body.parts[i].fieldname)

\* C5: in every multipart request, the form-file field name of each uploaded
\* FileReader equals the name of the attach://<name> placeholder that the same
\* FileReader wrote into the parameter fields of that request.
C5_AttachNameCorrelation ==
    /\ (Encoded /\ reqContentType = "multipart/form-data")
          => AttachNamesMatch(requestData, reqBody)
    /\ \A k \in DOMAIN sent :
         sent[k].contentType = "multipart/form-data"
            => AttachNamesMatch(requestData, sent[k].body)

C5_Witness ==
    /\ sent # <<>>
    /\ Len(sent[1].body.parts) = 2
    /\ sent[1].body.parts[1].fieldname # sent[1].body.parts[2].fieldname
    /\ sent[1].body.fields.files[1] = Placeholder(sent[1].body.parts[1].fieldname)

IsHardError(r) == r.kind = "json" /\ ~r.ok /\ r.migrate = 0 /\ r.retry = 0
IsRetry(e) == e.ev = "sleep" \/ (e.ev = "call" /\ IsRateLimit(e.resp))

\* C12: an answer with ok=false and no actionable parameters (none, or both
\* migrate_to_chat_id and retry_after zero), on whichever attempt it comes, is
\* the last transport call of the invocation, which has returned 0 and an error
\* that wraps the answer's description.
C12_HardErrorReturnsDescription ==
    \A i \in DOMAIN trace :
        (trace[i].ev = "call" /\ IsHardError(trace[i].resp)) =>
            /\ i = Len(trace)
            /\ cpc \in {"returned", "idle"}
            /\ ret = [migrate |-> 0,
                      err |-> "makeAPICall - telegram bot api error: "
                                 \o trace[i].resp.description]

C12_Witness ==
    /\ cpc = "returned"
    /\ Len(trace) = 3
    /\ IsRateLimit(trace[1].resp)
    /\ IsHardError(trace[3].resp)
    /\ trace[3].resp.hasParams
    /\ ret.err = "makeAPICall - telegram bot api error: Forbidden: bot was blocked by the user"

IsTransportFailure(r) == r.kind \in {"neterr", "badjson"}

\* C13: a transport error or a body that cannot be decoded, on the first attempt
\* or on an attempt that follows rate-limit retries, is the last transport call
\* of the invocation, which has returned 0 and a non-nil error.
C13_TransportErrorReturns ==
    \A i \in DOMAIN trace :
        (trace[i].ev = "call" /\ IsTransportFailure(trace[i].resp)) =>
            /\ i = Len(trace)
            /\ \A j \in 1..(i - 1) : IsRetry(trace[j])
            /\ cpc \in {"returned", "idle"}
            /\ ret.migrate = 0
            /\ ret.err # NoErr

C13_Witness ==
    /\ cpc = "returned"
    /\ Len(trace) = 3
    /\ IsRateLimit(trace[1].resp)
    /\ trace[3].resp.kind = "badjson"
    /\ ret = [migrate |-> 0, err |-> "decode error"]

\* The lower-camel-case of a wrapper's name: its first letter in lower case.
Lower == [c \in {"A", "C", "E", "S", "U"} |->
            CASE c = "A" -> "a" [] c = "C" -> "c" [] c = "E" -> "e"
              [] c = "S" -> "s" [] c = "U" -> "u"]
LowerCamel(w) == Lower[w.first] \o w.rest

\* C14: every request a wrapper X causes goes to the provider method of X's own
\* name: its URL ends in "/" followed by the lower-camel-case of X.
C14_MethodNameFidelity ==
    \A i \in DOMAIN sent :
        wpc # "idle" =>
            sent[i].url = DefaultAPIEndpointURL \o Token \o "/" \o LowerCamel(wrapper)

\* C15: when EditMessageText for a message that is not inline (InlineMessageID
\* empty) succeeded, the wrapper has returned the edited Message the answer
\* carried, not nil.
C15_EditReturnsEditedMessage ==
    (/\ wpc = "done"
     /\ wrapper = Name("E", "ditMessageText")
     /\ params.InlineMessageID = ""
     /\ IsSuccess(LastAnswer)
     /\ LastAnswer.result.present) =>
        /\ wret.err = NoErr
        /\ wret.msg # "nil"
        /\ wret.msg = LastAnswer.result.val

HasNil(files) == \E i \in DOMAIN files.items : files.items[i].kind = "nil"
WithoutNil(files) ==
    IF files.isNil THEN NilList
    ELSE List(SelectSeq(files.items, LAMBDA f : f.kind # "nil"))
\* The form-file parts and the content type of a request for the list files.
PartsFor(files) ==
    LET toUpload == filterInputFilesNeedingUpload(files, fieldname).items
    IN [i \in 1..Len(toUpload) |-> multipartFormFile(toUpload[i], fieldname)]
EncodingFor(files) == ContentTypeFor(Len(PartsFor(files)) > 0)

\* C16: when the file list of a call holds nil entries, the request is built
\* without error, none of its form-file parts comes from a nil entry, and its
\* content type and parts are those of the list without the nil entries.
C16_NilFilesSkipped ==
    (Encoded /\ HasNil(inputFiles)) =>
        /\ \A i \in DOMAIN reqBody.parts : reqBody.parts[i].reader # "nil"
        /\ Len(reqBody.parts) <= Len(WithoutNil(inputFiles).items)
        /\ reqBody.parts = PartsFor(WithoutNil(inputFiles))
        /\ reqContentType = EncodingFor(WithoutNil(inputFiles))
        /\ \A k \in DOMAIN sent :
             /\ sent[k].body.parts = PartsFor(WithoutNil(inputFiles))
             /\ sent[k].contentType = EncodingFor(WithoutNil(inputFiles))

C16_Witness ==
    /\ cpc = "returned"
    /\ ret.err = NoErr
    /\ inputFiles = List(<<[kind |-> "FileReader", val |-> "fr1"], NilFile>>)
    /\ Len(sent) = 1
    /\ sent[1].contentType = "multipart/form-data"
    /\ Len(sent[1].body.parts) = 1
    /\ sent[1].body.parts[1].reader = ReaderOf("fr1")

\* C21: an answer with ok=false in which both migrate_to_chat_id and
\* retry_after are non-zero is treated as a migration: it is the invocation's
\* last transport call, no sleep follows it, and (migrate_to_chat_id, nil) is
\* returned; an answer with ok=true, with or without parameters, is the last
\* transport call and (0, nil) is returned.
C21_MigrationBeforeRetry ==
    \A i \in DOMAIN trace :
        LET r == trace[i].resp
        IN /\ (trace[i].ev = "call" /\ r.kind = "json" /\ ~r.ok
                /\ r.migrate # 0 /\ r.retry # 0) =>
                  /\ i = Len(trace)
                  /\ cpc \in {"returned", "idle"}
                  /\ ret = [migrate |-> r.migrate, err |-> NoErr]
           /\ (trace[i].ev = "call" /\ r.kind = "json" /\ r.ok) =>
                  /\ i = Len(trace)
                  /\ cpc \in {"returned", "idle"}
                  /\ ret = [migrate |-> 0, err |-> NoErr]

C21_Witness ==
    /\ cpc = "returned"
    /\ Len(trace) = 3
    /\ IsRateLimit(trace[1].resp)
    /\ ~trace[3].resp.ok
    /\ trace[3].resp.migrate = 1
    /\ trace[3].resp.retry = MaxRetryAfter
    /\ ret = [migrate |-> 1, err |-> NoErr]

\* An answer with ok=true that carries parameters all the same.
C21_WitnessOkWithParameters ==
    /\ cpc = "returned"
    /\ LastAnswer.ok
    /\ LastAnswer.hasParams
    /\ LastAnswer.migrate # 0

\* C22: within one makeAPICall invocation every transport call, the first and
\* every retry after a rate limit, is a POST to <EndpointURL><Token>/<method>
\* with the content type and the body that were encoded before the first one;
\* from the first transport call on the encoded request, and the field names
\* it was built with, no longer change.
C22_OneEncodingPerInvocation ==
    /\ [](/\ Len(sent) = NumCalls(trace)
          /\ \A i \in DOMAIN sent :
                sent[i] = [httpMethod |-> "POST",
                           url |-> DefaultAPIEndpointURL \o Token \o "/" \o method,
                           contentType |-> reqContentType,
                           body |-> reqBody])
    /\ [][(cpc = "transport" \/ cpc = "sleeping") =>
            (/\ reqBody' = reqBody
             /\ reqContentType' = reqContentType
             /\ fieldname' = fieldname
             /\ method' = method)]_vars

C22_Witness ==
    /\ cpc = "returned"
    /\ Len(sent) = MaxCalls
    /\ sent[1] = sent[MaxCalls]
    /\ sent[1].contentType = "multipart/form-data"
    /\ Len(sent[1].body.parts) = 2

\* C23: makeAPICall has no retry cap: an answer with ok=false and a non-zero
\* retry_after (and no migrate_to_chat_id) never ends the invocation, it is
\* always followed by the sleep and by another transport call; and once the
\* provider answers anything else, or the transport fails, the invocation
\* returns: every invocation that was entered eventually returns.
C23_RetryUntilProviderStops ==
    /\ [](\A i \in DOMAIN trace :
            (trace[i].ev = "call" /\ IsRateLimit(trace[i].resp)) =>
                /\ i < Len(trace)
                /\ trace[i + 1] = [ev |-> "sleep", resp |-> trace[i].resp,
                                   secs |-> trace[i].resp.retry])
    /\ [](cpc \in {"returned", "idle"} /\ trace # <<>> => ~IsRateLimit(LastAnswer))
    /\ (cpc = "sleeping" ~> cpc = "transport")
    /\ (cpc = "entry" ~> cpc = "returned")

C23_Witness ==
    /\ cpc = "returned"
    /\ NumCalls(trace) = MaxCalls
    /\ \A i \in 1..(MaxCalls - 1) : IsRateLimit(CallEvents(trace)[i].resp)

\* Every use of a FileReader in the encoded request body shows the name that
\* the FileReader holds, and that name is not empty.
UsesShowName(data, body, fn) ==
    /\ \A j \in DOMAIN data.Files :
          data.Files[j].kind = "FileReader" =>
              /\ fn[data.Files[j].val] # ""
              /\ body.fields.files[j] = Placeholder(fn[data.Files[j].val])
    /\ \A i \in DOMAIN body.parts :
          /\ body.parts[i].fieldname # ""
          /\ body.parts[i].fieldname = fn[PartOwner(body.parts[i])]

\* C27: the form-field name of a FileReader is generated at its first use and
\* never changes afterwards: once a FileReader holds a name no step replaces
\* it, and every use of the FileReader (the placeholder MarshalJSON writes,
\* the form-file part multipartFormFile names), in the same call or in a later
\* one, shows that same non-empty name.
C27_FieldnameMemoized ==
    /\ [](Encoded => UsesShowName(requestData, reqBody, fieldname))
    /\ [][\A fr \in Readers :
            fieldname[fr] # "" => fieldname'[fr] = fieldname[fr]]_vars

\* A FileReader used by MarshalJSON and then by multipartFormFile of one call,
\* while another FileReader has not been used yet.
C27_Witness ==
    /\ cpc = "transport"
    /\ Len(reqBody.parts) = 1
    /\ PartOwner(reqBody.parts[1]) = "fr1"
    /\ reqBody.fields.files[1] = Placeholder(fieldname["fr1"])
    /\ fieldname["fr1"] \in Names
    /\ fieldname["fr2"] = ""

\* A later call is entered with a FileReader that an earlier call named.
C27_WitnessLaterCall ==
    /\ cpc = "entry"
    /\ fieldname["fr1"] \in Names
    /\ "fr1" \in ReadersIn(requestData.Files)

\* C28: a wrapper that returns a nil error has seen ok=true in the last
\* transport answer of its call; a call whose only answer was a soft or hard
\* failure is not returned as a success with a zero-valued result.
C28_NilErrorOnlyAfterOk ==
    (wpc = "done" /\ wret.err = NoErr) =>
        /\ trace # <<>>
        /\ IsSuccess(LastAnswer)

\* C30: whenever the parameter fields of a request the transport saw hold an
\* attach://<name> placeholder, that request is multipart/form-data and has a
\* form-file part whose field name is <name>.
C30_NoDanglingPlaceholder ==
    \A k \in DOMAIN sent :
        \A j \in DOMAIN sent[k].body.fields.files : \A name \in Names :
            sent[k].body.fields.files[j] = Placeholder(name) =>
                /\ sent[k].contentType = "multipart/form-data"
                /\ \E i \in DOMAIN sent[k].body.parts :
                      sent[k].body.parts[i].fieldname = name

----------------------------------------------------------------------------
(* Properties of concurrent calls, checked under SpecConc *)

\* The request and the outcome a makeAPICall that runs alone has for the file
\* of frame f, given the field names fn its FileReader holds.
AloneFields(f, fn) == MarshalJSON(f.file, fn)
AloneParts(f, fn) ==
    IF f.file.kind = "FileReader" /\ ReaderOf(f.file.val) # "nil"
    THEN <<multipartFormFile(f.file, fn)>> ELSE <<>>
AloneRet(f) ==
    [migrate |-> dispatch(f.answers[Len(f.answers)]).migrate,
     err |-> dispatch(f.answers[Len(f.answers)]).err]

\* C26: however the steps of makeAPICall invocations that use distinct
\* FileReader objects interleave, each call's request (URL, content type,
\* parameter fields with their attach names, form-file parts) and its outcome
\* are those the call has when it runs alone: they depend on its own
\* arguments, its own FileReader's name and its own answers only; and a step
\* never replaces a field name that is set.
C26_ConcurrentCallsIndependent ==
    /\ [](\A g \in Goroutines :
            LET f == frames[g]
            IN /\ f.pc \in {"transport", "sleeping", "returned"} =>
                    /\ f.reqURL = DefaultAPIEndpointURL \o Token \o "/" \o f.method
                    /\ f.fields = AloneFields(f, fieldname)
                    /\ f.parts = AloneParts(f, fieldname)
                    /\ f.reqContentType = ContentTypeFor(f.parts # <<>>)
                    /\ f.file.kind = "FileReader" => fieldname[f.file.val] \in Names
               /\ f.pc = "returned" =>
                    /\ f.ret = AloneRet(f)
                    /\ \A i \in 1..(Len(f.answers) - 1) : IsRateLimit(f.answers[i])
               /\ f.pc = "sleeping" => IsRateLimit(f.answers[Len(f.answers)]))
    /\ [][\A fr \in Readers :
            fieldname[fr] # "" => fieldname'[fr] = fieldname[fr]]_vars

\* One goroutine has its multipart request encoded while the other is between
\* the test and the assignment of checkFieldname.
C26_Witness ==
    /\ frames[1].pc = "transport"
    /\ frames[1].reqContentType = "multipart/form-data"
    /\ frames[1].parts[1].fieldname = fieldname["fr1"]
    /\ frames[2].pc = "generate"
    /\ frames[2].file.val = "fr2"
    /\ frames[2].stage = "marshal"

\* Both goroutines are between the test and the assignment at the same time.
C26_WitnessBothGenerate ==
    /\ frames[1].pc = "generate"
    /\ frames[2].pc = "generate"

----------------------------------------------------------------------------
(* Properties of the update poller, checked under SpecPoll and FairSpecPoll *)

Range(b) == {b[i] : i \in DOMAIN b}
Max(S) == CHOOSE x \in S : \A y \in S : y <= x
Ascending(S) ==
    CHOOSE s \in [1..Cardinality(S) -> S] :
        \A i, j \in 1..Cardinality(S) : i < j => s[i] < s[j]
Deliveries(us, n) == [i \in 1..n |-> [update |-> us[i], err |-> NoErr]]
CycleOver == ppc \in {"loop", "stopped"} /\ outcome # "none"

\* C6: the updates of a non-empty batch, whatever order the fetch returned them
\* in, reach the receiver in ascending UpdateID order, and once the cycle is
\* over the offset is the batch's greatest UpdateID + 1.
C6_UpdateOrdering ==
    /\ ppc = "delivering" =>
         handled = Deliveries(Ascending(Range(LastAnswer.result.val)), idx - 1)
    /\ (CycleOver /\ outcome = "delivered") =>
         LET batch == LastAnswer.result.val
         IN /\ handled = Deliveries(Ascending(Range(batch)), Len(batch))
            /\ offset = Max(Range(batch)) + 1

C6_Witness ==
    /\ CycleOver
    /\ outcome = "delivered"
    /\ LastAnswer.result.val = <<4, 2, 3>>
    /\ handled = Deliveries(<<2, 3, 4>>, 3)
    /\ offset = 5

\* C7: when a fetch fails (transport error, undecodable body, or an answer that
\* is not ok), the offset after the cycle is the offset before it, and every
\* fetch is issued with the current offset: the next fetch repeats the offset.
C7_CursorUnchangedOnError ==
    /\ (CycleOver /\ trace # <<>> /\ ~IsSuccess(LastAnswer)) => offset = cycleOffset
    /\ ppc = "fetching" =>
         /\ offset = cycleOffset
         /\ requestData.Offset = offset
         /\ \A i \in DOMAIN sent : sent[i].body.fields.offset = offset

C7_Witness ==
    /\ ppc = "loop"
    /\ outcome = "error"
    /\ LastAnswer.kind = "neterr"
    /\ cycleOffset = MaxUpdateID
    /\ offset = MaxUpdateID

\* C10: a failed fetch is reported to the receiver once, as (nil, err); the poller
\* is stopped only if the stop function was called; and after a failed fetch,
\* unless stop is called, a fetch is eventually issued again.
C10_PollerSurvivesErrors ==
    /\ []((CycleOver /\ outcome = "error") =>
            /\ ret.err # NoErr
            /\ handled = <<[update |-> NilUpdate, err |-> ret.err]>>)
    /\ [](ppc = "stopped" => stopCalled)
    /\ (ppc = "loop" /\ outcome = "error" /\ ~stopCalled)
          ~> (stopCalled \/ (ppc = "fetching" /\ sent # <<>>))

C10_Witness ==
    /\ ppc = "fetching"
    /\ sent # <<>>
    /\ outcome = "error"
    /\ ~stopCalled

\* C11: over the fetch cycles of one polling session, whatever update ids the
\* provider returns, no cycle leaves the offset below the offset it began with.
C11_CursorNeverDecreases ==
    ppc # "idle" => offset >= cycleOffset

\* The receiver invocations of the current cycle that have started and not
\* yet returned.
Running == Len(handled) - (idx - 1)

\* C24: within one polling session the receiver is invoked once per update of
\* each fetched batch, in the order of the batch; an invocation has returned
\* before the next one starts; and while a fetch is under way no invocation
\* is running.
C24_SequentialDelivery ==
    /\ ppc \in {"delivering", "handling"} =>
          /\ Running = (IF ppc = "handling" THEN 1 ELSE 0)
          /\ Len(handled) <= Len(updates)
          /\ handled = Deliveries(updates, Len(handled))
          /\ cpc = "idle"
    /\ (CycleOver /\ outcome = "delivered") =>
          /\ handled = Deliveries(updates, Len(updates))
          /\ idx = Len(updates) + 1
    /\ cpc # "idle" => (ppc = "fetching" /\ handled = <<>>)

C24_Witness ==
    /\ ppc = "handling"
    /\ Len(updates) = MaxBatch
    /\ idx = MaxBatch
    /\ Len(handled) = MaxBatch
    /\ cycleOffset # 0

\* Every update of the batch the last fetch returned has been handed to the
\* receiver, and the receiver has returned from each.
BatchDelivered ==
    /\ trace # <<>>
    /\ IsSuccess(LastAnswer)
    /\ Range(updates) = Range(LastAnswer.result.val)
    /\ handled = Deliveries(updates, Len(updates))
    /\ Running = 0

\* C25: a running poller changes its offset only in a step before which every
\* update of the fetched batch has been delivered to the receiver, and the
\* new offset is above every UpdateID of that batch; and a fetch that follows
\* a cycle which fetched updates is issued only after all of them have been
\* delivered, with an offset above each of them.
C25_DeliverBeforeAcknowledge ==
    /\ [][(ppc # "idle" /\ offset' # offset) =>
            (/\ BatchDelivered
             /\ \A i \in DOMAIN handled : handled[i].update < offset')]_vars
    /\ [][(ppc = "loop" /\ ppc' = "fetching" /\ trace # <<>>
           /\ IsSuccess(LastAnswer) /\ LastAnswer.result.present
           /\ LastAnswer.result.val # <<>>) =>
            (/\ BatchDelivered
             /\ \A u \in Range(LastAnswer.result.val) : u < requestData'.Offset)]_vars

C25_Witness ==
    /\ ppc = "fetching"
    /\ sent # <<>>
    /\ outcome = "delivered"
    /\ Len(updates) = MaxBatch
    /\ requestData.Offset = updates[MaxBatch] + 1
    /\ sent[1].body.fields.offset = updates[MaxBatch] + 1

----------------------------------------------------------------------------
(* Properties of the tools, checked under SpecTools *)

Returned(tool) == tpc = "returned" /\ tin.tool = tool

\* C17 as stated: for every command and args, decompiling the compiled
\* callback data gives back exactly (command, args).
C17_CbQryDataRoundTrip ==
    Returned("CbQryData") =>
        tout.result = [command |-> tin.command, args |-> tin.args]

HasNUL(str) == \E i \in DOMAIN str : str[i] = NUL

\* C17, amended: for every command that does not contain the separator \x00
\* and every args (with or without it), decompiling the compiled callback data
\* gives back exactly (command, args).
C17_CbQryDataRoundTripOfPlainCommand ==
    (Returned("CbQryData") /\ ~HasNUL(tin.command)) =>
        tout.result = [command |-> tin.command, args |-> tin.args]

C17_Witness ==
    /\ Returned("CbQryData")
    /\ tin.command = <<"a", "b">>
    /\ tin.args = <<NUL, "b">>
    /\ tout.cbQryData = <<"a", "b", NUL, NUL, "b">>
    /\ tout.result = [command |-> <<"a", "b">>, args |-> <<NUL, "b">>]

\* The text ParseMessageCommand looks at, and its entities.
UsedText(msg) == IF msg.Text # <<>> THEN msg.Text ELSE msg.Caption
UsedEntities(msg) == IF msg.Text # <<>> THEN msg.Entities ELSE msg.CaptionEntities
HasCommandAtStart(msg) ==
    \E i \in DOMAIN UsedEntities(msg) :
        /\ UsedEntities(msg)[i].Type = MessageEntityTypeBotCommand
        /\ UsedEntities(msg)[i].Offset = 0
\* t is s without the whitespace around it.
IsTrimOf(t, s) ==
    /\ t = <<>> \/ (t[1] # " " /\ t[Len(t)] # " ")
    /\ \E i \in 1..(Len(s) + 1) :
         /\ \A k \in 1..(i - 1) : s[k] = " "
         /\ i + Len(t) - 1 <= Len(s)
         /\ t = SubSeq(s, i, i + Len(t) - 1)
         /\ \A k \in (i + Len(t))..Len(s) : s[k] = " "

\* C18: for a message without a bot_command entity at offset 0, ParseMessageCommand
\* returns an empty command and empty args; for a message with one, it returns
\* the name that follows the slash, up to the "@" if there is one, and as args
\* the text after the entity without the whitespace around it.
C18_ParseMessageCommand ==
    Returned("ParseMessageCommand") =>
        LET msg == tin.msg
            text == UsedText(msg)
            res == tout.result
        IN IF ~HasCommandAtStart(msg)
           THEN res = [command |-> <<>>, args |-> <<>>]
           ELSE /\ res.command = SubSeq(text, 2, 1 + NameLen(text, 2))
                /\ \A k \in DOMAIN res.command : res.command[k] \notin {"/", "@"}
                /\ IsTrimOf(res.args, SubSeq(text, CommandLen(text, 1) + 1, Len(text)))

C18_Witness ==
    /\ Returned("ParseMessageCommand")
    /\ tin.msg.Caption = <<"/", "c", "@", "c", " ", "c">>
    /\ Len(tin.msg.CaptionEntities) = 2
    /\ tout.result = [command |-> <<"c">>, args |-> <<"c">>]

\* C29: ParseMessageCommand returns normally for every message, whatever the
\* Length of a bot_command entity at offset 0 is (0, or more than the text
\* has): it never fails on text[1:Length] or text[Length:].
C29_ParseMessageCommandReturns ==
    tin.tool \in {"ParseMessageCommand", "ParseMessageCommand of any entity"}
        => tpc # "panicked"

\* The buttons of a keyboard whose Text is text, by <<row, column>>.
Matches(rkh, text) ==
    UNION {{<<r, c>> : c \in {k \in DOMAIN rkh[r] : rkh[r][k].Text = text}} :
             r \in DOMAIN rkh}
FirstRowMajor(S) ==
    CHOOSE p \in S : \A q \in S : p[1] < q[1] \/ (p[1] = q[1] /\ p[2] <= q[2])

\* C19: HandleMessageKeyboardButton reports handled exactly when the message is
\* not nil, its text is not empty and some button has that text; it then ran
\* one handler, that of the first such button in row-major order, and returned
\* that handler's error; otherwise it ran no handler and returned (false, nil).
C19_HandleMessageKeyboardButton ==
    Returned("HandleMessageKeyboardButton") =>
        LET rkh == tin.rkh
            msg == tin.msg
            res == tout.result
            found == IF msg.nil \/ msg.Text = <<>> THEN {} ELSE Matches(rkh, msg.Text)
        IN /\ res.handled <=> (found # {})
           /\ IF found # {}
              THEN LET b == rkh[FirstRowMajor(found)[1]][FirstRowMajor(found)[2]]
                   IN /\ res.ran = <<FirstRowMajor(found)>>
                      /\ res.err = IF b.Handler.fails
                                   THEN [nil |-> FALSE, of |-> FirstRowMajor(found)]
                                   ELSE NilError
              ELSE /\ res.ran = <<>>
                   /\ res.err = NilError

C19_Witness ==
    /\ Returned("HandleMessageKeyboardButton")
    /\ tin.msg = [nil |-> FALSE, Text |-> <<"B">>]
    /\ tin.rkh = Keyboard(<< <<(<<"A">>), (<<"B">>)>>, <<(<<"B">>)>> >>, TRUE)
    /\ tout.result = [handled |-> TRUE, err |-> [nil |-> FALSE, of |-> <<1, 2>>],
                      ran |-> << <<1, 2>> >>]

====
